---- MODULE Spec2Model ----
(***************************************************************************)
(* Model of src/src/tools/yahoo_finance.py: the three fetchers             *)
(* (yf_get_prices, yf_get_financial_metrics, yf_get_insider_trades), the   *)
(* module-level cache they share, and clear_cache.                         *)
(*                                                                         *)
(* Conventions                                                             *)
(*  - A Python str is a sequence of atoms (chunks of characters); "_" is   *)
(*    always an atom of its own, so string equality is sequence equality   *)
(*    and concatenation is \o.  '' is << >>.                               *)
(*  - None in a str-or-None position is PyNone; a number-or-None (or a     *)
(*    number-or-NaN) value is << >> when missing and <<v>> when present.   *)
(*  - Numbers are fixed point, in hundredths (15000 is 150.00), except     *)
(*    share counts and limits, which are plain integers.                   *)
(*  - The provider (yfinance) is external: each call on a cache miss       *)
(*    draws its response from a set of possible responses.                 *)
(*  - The fetcher actions YfGet... run a whole call as one step, as in     *)
(*    single-threaded use.  The step-by-step actions (Invoke, CacheCheck,  *)
(*    ...) run the same code statement by statement for two threads, whose *)
(*    invocations in flight are held in `inflight`.                        *)
(***************************************************************************)
EXTENDS Integers, Sequences, FiniteSets, TLC

VARIABLES cache, last, nfetch, inflight

vars == <<cache, last, nfetch, inflight>>

(***************************************************************************)
(* Bounds                                                                  *)
(***************************************************************************)
\* Fetcher invocations explored between two clear_cache calls.
MaxFetches == 3
\* Rows of the generated price tables.
MaxRows == 2

(***************************************************************************)
(* Python values                                                           *)
(***************************************************************************)
PyNone == << "<None>" >>
NoneNum == << >>
NaN == << >>
EmptyStr == << >>
Num(v) == << v >>

\* Truthiness of a str-or-None value: None and '' are falsy.
TruthyStr(s) == s # PyNone /\ s # EmptyStr
\* Truthiness of a number-or-None value: None and 0 are falsy.
TruthyNum(x) == x # NoneNum /\ x[1] # 0

\* str() / f-string formatting of a str-or-None value.
FmtStr(s) == IF s = PyNone THEN << "None" >> ELSE s
\* str() / f-string formatting of an int-or-None value.
FmtInt(x) == IF x = NoneNum THEN << "None" >> ELSE << ToString(x[1]) >>

\* The calendar dates of the model, as 'YYYY-MM-DD' strings, in order.
D1 == << "2024-01-01" >>
D2 == << "2024-01-02" >>
D3 == << "2024-01-03" >>
Dates == << D1, D2, D3 >>

\* Python's < on str, for '' and the date strings: '' sorts first, and
\* 'YYYY-MM-DD' strings sort lexicographically in calendar order.
StrRank(s) == IF s = EmptyStr THEN 0 ELSE CHOOSE i \in 1..Len(Dates) : Dates[i] = s
StrLt(a, b) == StrRank(a) < StrRank(b)

\* pandas.Timestamp: a calendar date and a time of day.
Timestamp(d, t) == [type |-> "Timestamp", date |-> d, time |-> t]
\* A table cell that holds no Timestamp (a missing column, NaT, plain text).
NotATimestamp == [type |-> "other", date |-> EmptyStr, time |-> ""]
\* isinstance(x, pd.Timestamp)
IsTimestamp(x) == x.type = "Timestamp"
\* Timestamp.strftime('%Y-%m-%d'): the date, the time of day dropped.
Strftime(ts) == ts.date

\* float(x) of a numeric cell: the same number; NaN stays NaN.
PyFloat(c) == c
\* A cell holding text that is no number, such as 'n/a': float() raises on it.
NotNumeric == << "str", "n/a" >>
FloatRaises(c) == Len(c) = 2
\* pd.notna(x): false for NaN, None and a missing column, true otherwise.
NotNa(c) == c # NaN
\* int(x) of a numeric cell raises ValueError on NaN, else truncates.
IntRaises(c) == c = NaN
PyInt(c) == Num((c[1] \div 100) * 100)

(***************************************************************************)
(* The cache: _cache, a dict of five dicts                                 *)
(***************************************************************************)
EmptyDict == [k \in {} |-> 0]
\* The namespace replaced by a dictionary holding the new entry alone.
DictSetAlone(d, key, v) == [k \in {key} |-> v]
DictSet(d, key, v) == [k \in DOMAIN d \cup {key} |-> IF k = key THEN v ELSE d[k]]

EmptyCache ==
  [prices |-> EmptyDict, financial_metrics |-> EmptyDict, line_items |-> EmptyDict,
   market_cap |-> EmptyDict, insider_trades |-> EmptyDict]

(***************************************************************************)
(* Outcome of a function body: an exception, or a returned value together  *)
(* with whether the body stored it in the cache.                           *)
(***************************************************************************)
Raise == [exc |-> TRUE, ret |-> << >>, store |-> FALSE]
Return(v, stored) == [exc |-> FALSE, ret |-> v, store |-> stored]

\* The record kept of the most recent operation: its arguments, whether it was
\* served from the cache, the provider calls it made and the response it got,
\* what it returned, whether an exception left it, whether it stored its result,
\* and (clear_cache) how many entries it dropped.
NoCall ==
  [fn |-> "none", ticker |-> EmptyStr, start_date |-> PyNone, end_date |-> PyNone,
   period |-> EmptyStr, limit |-> NoneNum, now |-> EmptyStr,
   hit |-> FALSE, calls |-> 0, resp |-> << >>, result |-> << >>, raised |-> FALSE,
   stored |-> FALSE, dropped |-> 0]

(***************************************************************************)
(* yf_get_prices                                                           *)
(***************************************************************************)
AAPL == << "AAPL" >>
MSFT == << "MSFT" >>

PricesKey(ticker, start_date, end_date) ==
  ticker \o << "_" >> \o start_date \o << "_" >> \o end_date

\* Price(open=float(row['Open']), ..., time=date.strftime('%Y-%m-%d'))
PriceRaises(row) == IntRaises(row.Volume)
PriceOf(row) ==
  [open |-> PyFloat(row.Open), close |-> PyFloat(row.Close), high |-> PyFloat(row.High),
   low |-> PyFloat(row.Low), volume |-> PyInt(row.Volume), time |-> Strftime(row.index)]

\* Each record inserted at the front: the rows come out newest first.
TransformPricesReversed(rows) == [i \in 1..Len(rows) |-> PriceOf(rows[Len(rows) + 1 - i])]
\* for date, row in df.iterrows(): prices.append(Price(...))
TransformPrices(rows) == [i \in 1..Len(rows) |-> PriceOf(rows[i])]

\* A row that fails to convert is skipped and the rest is stored and returned.
PricesTrySkipsBadRows(resp) ==
  IF resp.raises THEN Raise
  ELSE IF resp.rows = << >> THEN Return(<< >>, FALSE)
  ELSE Return(TransformPrices(SelectSeq(resp.rows, LAMBDA row : ~PriceRaises(row))), TRUE)
\* The try block of yf_get_prices, given the provider's response to history().
PricesTry(resp) ==
  IF resp.raises THEN Raise
  ELSE IF resp.rows = << >> THEN Return(<< >>, FALSE)
  ELSE IF \E i \in 1..Len(resp.rows) : PriceRaises(resp.rows[i]) THEN Raise
  ELSE Return(TransformPrices(resp.rows), TRUE)

\* No except clause: the exception leaves the function.
PricesNoExcept(o) == o
\* except Exception as e: logger.error(...); return []
PricesExcept(o) == IF o.exc THEN Return(<< >>, FALSE) ELSE o

\* The lookup made in the wrong namespace.
PricesLookupWrongNamespace(c, key) == key \in DOMAIN c.line_items
PricesLookup(c, key) == key \in DOMAIN c.prices

YfGetPrices(Args, Resps) ==
  \E a \in Args :
    LET key == PricesKey(a.ticker, a.start_date, a.end_date)
        call == [NoCall EXCEPT !.fn = "yf_get_prices", !.ticker = a.ticker,
                               !.start_date = a.start_date, !.end_date = a.end_date]
    IN
    /\ nfetch < MaxFetches
    /\ nfetch' = nfetch + 1
    /\ UNCHANGED inflight
    /\ IF PricesLookup(cache, key)
       THEN /\ last' = [call EXCEPT !.hit = TRUE, !.result = cache.prices[key]]
            /\ UNCHANGED cache
       ELSE \E resp \in Resps :
            LET o == PricesExcept(PricesTry(resp)) IN
            /\ cache' = IF o.store
                        THEN [cache EXCEPT !.prices = DictSet(@, key, o.ret)]
                        ELSE cache
            /\ last' = [call EXCEPT !.calls = 1, !.resp = resp,
                                    !.result = o.ret, !.raised = o.exc,
                                    !.stored = o.store]

(***************************************************************************)
(* yf_get_financial_metrics                                                *)
(***************************************************************************)
\* info.get(k) and info.get(k, default) on the provider's dictionary.
Get(info, k) == IF k \in DOMAIN info THEN info[k] ELSE NoneNum
GetOr(info, k, default) == IF k \in DOMAIN info THEN info[k] ELSE default

\* info.get(k, 0) * 100 if info.get(k) else None
Percent(info, k) ==
  IF TruthyNum(Get(info, k)) THEN Num(GetOr(info, k, Num(0))[1] * 100) ELSE NoneNum

\* The end date ignored: always the current date.
ReportPeriodNow(end_date, now) == now
\* report_period = end_date if end_date else datetime.now().strftime('%Y-%m-%d')
ReportPeriod(end_date, now) == IF TruthyStr(end_date) THEN end_date ELSE now

\* A field with no provider equivalent defaulted to zero.
NotAvailableAsZero == Num(0)
\* None  # Not directly available from Yahoo Finance
NotAvailable == NoneNum

\* FinancialMetrics(ticker=ticker, report_period=report_period, ...)
MetricsOf(ticker, report_period, period, info) ==
  [ticker |-> ticker,
   report_period |-> report_period,
   period |-> period,
   currency |-> GetOr(info, "currency", "USD"),
   market_cap |-> Get(info, "marketCap"),
   enterprise_value |-> Get(info, "enterpriseValue"),
   price_to_earnings_ratio |-> Get(info, "trailingPE"),
   price_to_book_ratio |-> Get(info, "priceToBook"),
   price_to_sales_ratio |-> Get(info, "priceToSalesTrailing12Months"),
   enterprise_value_to_ebitda_ratio |-> Get(info, "enterpriseToEbitda"),
   enterprise_value_to_revenue_ratio |-> Get(info, "enterpriseToRevenue"),
   free_cash_flow_yield |-> NotAvailable,
   peg_ratio |-> Get(info, "pegRatio"),
   gross_margin |-> Percent(info, "grossMargins"),
   operating_margin |-> Percent(info, "operatingMargins"),
   net_margin |-> Percent(info, "profitMargins"),
   return_on_equity |-> Percent(info, "returnOnEquity"),
   return_on_assets |-> Percent(info, "returnOnAssets"),
   return_on_invested_capital |-> NotAvailable,
   asset_turnover |-> NotAvailable,
   inventory_turnover |-> NotAvailable,
   receivables_turnover |-> NotAvailable,
   days_sales_outstanding |-> NotAvailable,
   operating_cycle |-> NotAvailable,
   working_capital_turnover |-> NotAvailable,
   current_ratio |-> Get(info, "currentRatio"),
   quick_ratio |-> Get(info, "quickRatio"),
   cash_ratio |-> NotAvailable,
   operating_cash_flow_ratio |-> NotAvailable,
   debt_to_equity |-> Get(info, "debtToEquity"),
   debt_to_assets |-> NotAvailable,
   interest_coverage |-> NotAvailable,
   revenue_growth |-> Percent(info, "revenueGrowth"),
   earnings_growth |-> Percent(info, "earningsGrowth"),
   book_value_growth |-> NotAvailable,
   earnings_per_share_growth |-> Percent(info, "earningsQuarterlyGrowth"),
   free_cash_flow_growth |-> NotAvailable,
   operating_income_growth |-> NotAvailable,
   ebitda_growth |-> NotAvailable,
   payout_ratio |-> Percent(info, "payoutRatio"),
   earnings_per_share |-> Get(info, "trailingEps"),
   book_value_per_share |-> Get(info, "bookValue"),
   free_cash_flow_per_share |-> NotAvailable]

\* A key that also holds the period.
MetricsKeyWithPeriod(ticker, end_date, period, limit) == ticker \o << "_" >> \o period
\* cache_key = ticker
MetricsKey(ticker, end_date, period, limit) == ticker

\* if not info: an absent (None) or empty dictionary.
InfoFalsy(resp) == resp.absent \/ DOMAIN resp.info = {}

\* The try block of yf_get_financial_metrics, given the provider's .info.
\* The empty result for a missing dictionary stored like a snapshot.
MetricsTryStoresEmpty(ticker, end_date, period, now, resp) ==
  IF resp.raises THEN Raise
  ELSE IF InfoFalsy(resp) THEN Return(<< >>, TRUE)
  ELSE Return(<< MetricsOf(ticker, ReportPeriod(end_date, now), period, resp.info) >>, TRUE)
MetricsTry(ticker, end_date, period, now, resp) ==
  IF resp.raises THEN Raise
  ELSE IF InfoFalsy(resp) THEN Return(<< >>, FALSE)
  ELSE Return(<< MetricsOf(ticker, ReportPeriod(end_date, now), period, resp.info) >>, TRUE)

\* except Exception as e: logger.error(...); return []
MetricsExcept(o) == IF o.exc THEN Return(<< >>, FALSE) ELSE o

\* No lookup: every call fetches and stores again.
MetricsLookupNever(c, key) == FALSE
MetricsLookup(c, key) == key \in DOMAIN c.financial_metrics

YfGetFinancialMetrics(Args, Nows, Resps) ==
  \E a \in Args :
    LET key == MetricsKey(a.ticker, a.end_date, a.period, a.limit)
        call == [NoCall EXCEPT !.fn = "yf_get_financial_metrics", !.ticker = a.ticker,
                               !.end_date = a.end_date, !.period = a.period,
                               !.limit = a.limit]
    IN
    /\ nfetch < MaxFetches
    /\ nfetch' = nfetch + 1
    /\ UNCHANGED inflight
    /\ IF MetricsLookup(cache, key)
       THEN /\ last' = [call EXCEPT !.hit = TRUE, !.result = cache.financial_metrics[key]]
            /\ UNCHANGED cache
       ELSE \E now \in Nows, resp \in Resps :
            LET o == MetricsExcept(MetricsTry(a.ticker, a.end_date, a.period, now, resp)) IN
            /\ cache' = IF o.store
                        THEN [cache EXCEPT !.financial_metrics = DictSet(@, key, o.ret)]
                        ELSE cache
            /\ last' = [call EXCEPT !.calls = 1, !.resp = resp, !.now = now,
                                    !.result = o.ret, !.raised = o.exc,
                                    !.stored = o.store]

(***************************************************************************)
(* yf_get_insider_trades                                                   *)
(***************************************************************************)
\* The limit left out of the key.
InsiderKeyNoLimit(ticker, end_date, start_date, limit) ==
  ticker \o << "_" >> \o end_date \o << "_" >> \o FmtStr(start_date)
\* cache_key = f"{ticker}_{end_date}_{start_date}_{limit}"
InsiderKey(ticker, end_date, start_date, limit) ==
  ticker \o << "_" >> \o end_date \o << "_" >> \o FmtStr(start_date)
         \o << "_" >> \o FmtInt(limit)

\* x.strftime('%Y-%m-%d') if isinstance(x, pd.Timestamp) else ''
DateStrOf(x) == IF IsTimestamp(x) THEN Strftime(x) ELSE EmptyStr

\* The tests made with <= and >=: a row filed on a bound is dropped too.
SkippedOnBound(row, start_date, end_date) ==
  LET filing_date_str == DateStrOf(row.startDate) IN
  \/ TruthyStr(start_date) /\ TruthyStr(filing_date_str) /\ ~StrLt(start_date, filing_date_str)
  \/ TruthyStr(end_date) /\ TruthyStr(filing_date_str) /\ ~StrLt(filing_date_str, end_date)
\* The two `continue` tests of the loop: the row is dropped.
Skipped(row, start_date, end_date) ==
  LET filing_date_str == DateStrOf(row.startDate) IN
  \/ TruthyStr(start_date) /\ TruthyStr(filing_date_str) /\ StrLt(filing_date_str, start_date)
  \/ TruthyStr(end_date) /\ TruthyStr(filing_date_str) /\ StrLt(end_date, filing_date_str)

\* str.lower() of the atoms the model uses, and 'director' in str(x).lower().
LowerAtom(a) ==
  CASE a = "Director" -> "director"
    [] a = "DIRECTOR" -> "director"
    [] a = "Officer" -> "officer"
    [] a = "CEO" -> "ceo"
    [] OTHER -> a
IsDirector(relation) == \E i \in 1..Len(relation) : LowerAtom(relation[i]) = "director"

\* float(row.get('shares', 0)) if pd.notna(row.get('shares')) else 0, and the like.
FloatOrZero(c) == IF NotNa(c) THEN PyFloat(c) ELSE Num(0)
\* Missing shares counted as one share.
TransactionValueOneShare(shares, value) ==
  IF NotNa(shares) /\ NotNa(value) THEN PyFloat(Num(shares[1] * value[1]))
  ELSE IF NotNa(value) THEN PyFloat(value) ELSE Num(0)
\* float(shares * value) if pd.notna(shares) and pd.notna(value) else 0
TransactionValue(shares, value) ==
  IF NotNa(shares) /\ NotNa(value) THEN PyFloat(Num(shares[1] * value[1])) ELSE Num(0)

TradeRaises(row) == FloatRaises(row.shares) \/ FloatRaises(row.value)
\* InsiderTrade(ticker=ticker, issuer=ticker, name=row.get('filerName', ''), ...)
TradeOf(ticker, row) ==
  [ticker |-> ticker,
   issuer |-> ticker,
   name |-> row.filerName,
   title |-> row.filerRelation,
   is_board_director |-> IsDirector(row.filerRelation),
   transaction_date |-> DateStrOf(row.transactionDate),
   transaction_shares |-> FloatOrZero(row.shares),
   transaction_price_per_share |-> FloatOrZero(row.value),
   transaction_value |-> TransactionValue(row.shares, row.value),
   shares_owned_before_transaction |-> NoneNum,
   shares_owned_after_transaction |-> NoneNum,
   security_title |-> PyNone,
   filing_date |-> DateStrOf(row.startDate)]

\* The rows the loop converts: those it does not skip, in table order.
KeptRows(rows, start_date, end_date) ==
  SelectSeq(rows, LAMBDA row : ~Skipped(row, start_date, end_date))

\* for _, row in transactions_df.iterrows(): ... insider_trades.append(...)
TransformTrades(ticker, rows, start_date, end_date) ==
  LET kept == KeptRows(rows, start_date, end_date) IN
  [i \in 1..Len(kept) |-> TradeOf(ticker, kept[i])]

\* s[:k]: the first k elements, or all but the last -k when k is negative.
SliceTo(s, k) ==
  LET n == Len(s)
      stop == IF k >= 0 THEN (IF k < n THEN k ELSE n) ELSE (IF n + k > 0 THEN n + k ELSE 0)
  IN SubSeq(s, 1, stop)

\* The limit never applied.
LimitedNever(trades, limit) == trades
\* limited_trades = insider_trades[:limit] if limit else insider_trades
Limited(trades, limit) == IF TruthyNum(limit) THEN SliceTo(trades, limit[1]) ELSE trades

\* The try block of yf_get_insider_trades, given .insider_transactions.
InsiderTry(ticker, end_date, start_date, limit, resp) ==
  IF resp.raises THEN Raise
  ELSE IF resp.absent \/ resp.rows = << >> THEN Return(<< >>, FALSE)
  ELSE LET kept == KeptRows(resp.rows, start_date, end_date) IN
       IF \E i \in 1..Len(kept) : TradeRaises(kept[i]) THEN Raise
       ELSE Return(Limited(TransformTrades(ticker, resp.rows, start_date, end_date), limit),
                   TRUE)

\* The empty result of a failed call cached like a successful one.
InsiderExceptCachesEmpty(o) == IF o.exc THEN Return(<< >>, TRUE) ELSE o
\* except Exception as e: logger.error(...); return []
InsiderExcept(o) == IF o.exc THEN Return(<< >>, FALSE) ELSE o

InsiderLookup(c, key) == key \in DOMAIN c.insider_trades

YfGetInsiderTrades(Args, Resps) ==
  \E a \in Args :
    LET key == InsiderKey(a.ticker, a.end_date, a.start_date, a.limit)
        call == [NoCall EXCEPT !.fn = "yf_get_insider_trades", !.ticker = a.ticker,
                               !.end_date = a.end_date, !.start_date = a.start_date,
                               !.limit = a.limit]
    IN
    /\ nfetch < MaxFetches
    /\ nfetch' = nfetch + 1
    /\ UNCHANGED inflight
    /\ IF InsiderLookup(cache, key)
       THEN /\ last' = [call EXCEPT !.hit = TRUE, !.result = cache.insider_trades[key]]
            /\ UNCHANGED cache
       ELSE \E resp \in Resps :
            LET o == InsiderExcept(InsiderTry(a.ticker, a.end_date, a.start_date,
                                              a.limit, resp)) IN
            /\ cache' = IF o.store
                        THEN [cache EXCEPT !.insider_trades = DictSet(@, key, o.ret)]
                        ELSE cache
            /\ last' = [call EXCEPT !.calls = 1, !.resp = resp,
                                    !.result = o.ret, !.raised = o.exc,
                                    !.stored = o.store]

(***************************************************************************)
(* clear_cache                                                             *)
(***************************************************************************)
\* A clear_cache that forgets the insider_trades namespace.
ClearedCacheButInsider(c) ==
  [c EXCEPT !.prices = EmptyDict, !.financial_metrics = EmptyDict,
            !.line_items = EmptyDict, !.market_cap = EmptyDict]
ClearedCache(c) ==
  [c EXCEPT !.prices = EmptyDict, !.financial_metrics = EmptyDict,
            !.line_items = EmptyDict, !.market_cap = EmptyDict,
            !.insider_trades = EmptyDict]

Entries(c) ==
  Cardinality(DOMAIN c.prices) + Cardinality(DOMAIN c.financial_metrics)
  + Cardinality(DOMAIN c.line_items) + Cardinality(DOMAIN c.market_cap)
  + Cardinality(DOMAIN c.insider_trades)

ClearCache ==
  /\ cache' = ClearedCache(cache)
  /\ last' = [NoCall EXCEPT !.fn = "clear_cache", !.dropped = Entries(cache)]
  /\ nfetch' = 0
  /\ UNCHANGED inflight

(***************************************************************************)
(* A fetcher invocation step by step                                       *)
(*                                                                         *)
(* The fetchers take no lock, so two invocations running in two threads    *)
(* interleave between the statements that read or write _cache and around  *)
(* the blocking provider call.  An invocation in flight is at one of:      *)
(*   "check"  the key is computed, the membership test comes next          *)
(*   "hit"    the key was found, the cached value is read next             *)
(*   "call"   the key was not found, the provider is called next           *)
(*   "store"  the response is transformed, the assignment into _cache and  *)
(*            the return come next                                         *)
(*   "done"   the result is computed and about to be returned              *)
(* What the invocation does between two of these points touches only its   *)
(* own local variables.                                                    *)
(***************************************************************************)
Threads == {"t1", "t2"}
Idle == [pc |-> "idle", call |-> NoCall]

\* The key under which a call looks up and stores, and the namespace it uses.
KeyOfCall(l) ==
  CASE l.fn = "yf_get_prices" -> PricesKey(l.ticker, l.start_date, l.end_date)
    [] l.fn = "yf_get_financial_metrics" -> MetricsKey(l.ticker, l.end_date, l.period, l.limit)
    [] l.fn = "yf_get_insider_trades" -> InsiderKey(l.ticker, l.end_date, l.start_date, l.limit)
NamespaceOf(fn) ==
  CASE fn = "yf_get_prices" -> "prices"
    [] fn = "yf_get_financial_metrics" -> "financial_metrics"
    [] fn = "yf_get_insider_trades" -> "insider_trades"

\* if cache_key in _cache[...]
Lookup(c, l) ==
  CASE l.fn = "yf_get_prices" -> PricesLookup(c, KeyOfCall(l))
    [] l.fn = "yf_get_financial_metrics" -> MetricsLookup(c, KeyOfCall(l))
    [] l.fn = "yf_get_insider_trades" -> InsiderLookup(c, KeyOfCall(l))

\* The try block and the except clause of the call's fetcher, given the
\* provider's response (and, for the metrics, the current date).
Outcome(l, now, resp) ==
  CASE l.fn = "yf_get_prices" -> PricesExcept(PricesTry(resp))
    [] l.fn = "yf_get_financial_metrics" ->
         MetricsExcept(MetricsTry(l.ticker, l.end_date, l.period, now, resp))
    [] l.fn = "yf_get_insider_trades" ->
         InsiderExcept(InsiderTry(l.ticker, l.end_date, l.start_date, l.limit, resp))

\* An empty or failed response answered by calling the provider again.
AfterProviderRetry(o) == IF o.store THEN "store" ELSE "call"
\* Where the invocation goes once the provider has answered: on to the
\* assignment into _cache, or straight to `return []`.
AfterProvider(o) == IF o.store THEN "store" ELSE "done"

\* The new result appended to what the key already holds.
StoredAppended(c, l) ==
  LET ns == NamespaceOf(l.fn)
      key == KeyOfCall(l)
  IN [c EXCEPT ![ns] = DictSet(@, key, IF key \in DOMAIN @ THEN @[key] \o l.result
                                                       ELSE l.result)]
\* _cache[...][cache_key] = <the transformed result>
Stored(c, l) == [c EXCEPT ![NamespaceOf(l.fn)] = DictSet(@, KeyOfCall(l), l.result)]

\* The function is entered with the arguments of request r.
Invoke(t, Requests) ==
  /\ inflight[t].pc = "idle"
  /\ \E r \in Requests : inflight' = [inflight EXCEPT ![t] = [pc |-> "check", call |-> r]]
  /\ UNCHANGED <<cache, last, nfetch>>

\* if cache_key in _cache[...]:
CacheCheck(t) ==
  /\ inflight[t].pc = "check"
  /\ inflight' = [inflight EXCEPT
                    ![t].pc = IF Lookup(cache, inflight[t].call) THEN "hit" ELSE "call"]
  /\ UNCHANGED <<cache, last, nfetch>>

\* return _cache[...][cache_key]
ReturnCached(t) ==
  LET l == inflight[t].call IN
  /\ inflight[t].pc = "hit"
  /\ inflight' = [inflight EXCEPT
                    ![t] = [pc |-> "done",
                            call |-> [l EXCEPT !.hit = TRUE,
                                               !.result = cache[NamespaceOf(l.fn)][KeyOfCall(l)]]]]
  /\ UNCHANGED <<cache, last, nfetch>>

\* The blocking provider call returns (or raises) and the response is
\* transformed into the local result list.
ProviderCall(t, Times, Responses) ==
  LET l == inflight[t].call IN
  /\ inflight[t].pc = "call"
  /\ \E now \in Times, resp \in Responses[l.fn] :
       LET o == Outcome(l, now, resp) IN
       inflight' = [inflight EXCEPT
                      ![t] = [pc |-> AfterProvider(o),
                              call |-> [l EXCEPT !.calls = @ + 1, !.resp = resp,
                                                 !.now = IF l.fn = "yf_get_financial_metrics"
                                                         THEN now ELSE @,
                                                 !.result = o.ret, !.raised = o.exc]]]
  /\ UNCHANGED <<cache, last, nfetch>>

\* _cache[...][cache_key] = result
CacheStore(t) ==
  /\ inflight[t].pc = "store"
  /\ cache' = Stored(cache, inflight[t].call)
  /\ inflight' = [inflight EXCEPT ![t].pc = "done", ![t].call.stored = TRUE]
  /\ UNCHANGED <<last, nfetch>>

\* The result is returned to the caller.
Returns(t) ==
  /\ inflight[t].pc = "done"
  /\ inflight' = [inflight EXCEPT ![t] = Idle]
  /\ UNCHANGED <<cache, last, nfetch>>

\* clear_cache called while no invocation is in flight.
ClearCacheBetween ==
  /\ \A t \in Threads : inflight[t].pc = "idle"
  /\ ClearCache

(***************************************************************************)
(* Provider responses and request arguments                                *)
(***************************************************************************)
PriceRow(d, t, o, h, l, c, v) ==
  [index |-> Timestamp(d, t), Open |-> o, High |-> h, Low |-> l, Close |-> c, Volume |-> v]

RowA == PriceRow(D1, "00:00", Num(15000), Num(15500), Num(14800), Num(15300), Num(100000))
RowB == PriceRow(D2, "16:00", Num(15100), Num(15600), Num(14900), Num(15400), Num(110000))
\* A row whose Volume is NaN: int() raises on it.
RowNaN == PriceRow(D3, "00:00", Num(15200), Num(15700), Num(15000), Num(15500), NaN)

PriceRowPool == {RowA, RowB, RowNaN}
PriceTables == UNION {[1..k -> PriceRowPool] : k \in 0..MaxRows}
ProviderRaises == [raises |-> TRUE, rows |-> << >>]
PriceResponses == {ProviderRaises} \cup {[raises |-> FALSE, rows |-> t] : t \in PriceTables}

PriceArgs ==
  {[ticker |-> AAPL, start_date |-> D1, end_date |-> D2],
   [ticker |-> AAPL, start_date |-> D1, end_date |-> D3],
   [ticker |-> MSFT, start_date |-> D1, end_date |-> D3]}

\* The provider fields read as fractional rates, and those passed through.
RateKeys ==
  {"grossMargins", "operatingMargins", "profitMargins", "returnOnEquity",
   "returnOnAssets", "revenueGrowth", "earningsGrowth", "earningsQuarterlyGrowth",
   "payoutRatio"}
PassKeys ==
  {"marketCap", "enterpriseValue", "trailingPE", "priceToBook",
   "priceToSalesTrailing12Months", "enterpriseToEbitda", "enterpriseToRevenue",
   "pegRatio", "currentRatio", "quickRatio", "debtToEquity", "trailingEps", "bookValue"}

\* A dictionary giving every rate field the value r and every other field p.
InfoAll(r, p) == [k \in RateKeys \cup PassKeys |-> IF k \in RateKeys THEN r ELSE p]
\* A dictionary with a different value under every key, and a currency.
KeyOrder ==
  << "grossMargins", "operatingMargins", "profitMargins", "returnOnEquity",
     "returnOnAssets", "revenueGrowth", "earningsGrowth", "earningsQuarterlyGrowth",
     "payoutRatio", "marketCap", "enterpriseValue", "trailingPE", "priceToBook",
     "priceToSalesTrailing12Months", "enterpriseToEbitda", "enterpriseToRevenue",
     "pegRatio", "currentRatio", "quickRatio", "debtToEquity", "trailingEps",
     "bookValue" >>
InfoDistinct ==
  [k \in RateKeys \cup PassKeys \cup {"currency"} |->
     IF k = "currency" THEN "EUR"
     ELSE Num(10 + (CHOOSE i \in 1..Len(KeyOrder) : KeyOrder[i] = k))]
\* Some rates zero or negative, some present as None, the others absent.
InfoSparse ==
  [k \in {"grossMargins", "operatingMargins", "returnOnEquity", "marketCap", "pegRatio"} |->
     CASE k = "grossMargins" -> Num(45)
       [] k = "operatingMargins" -> Num(0)
       [] k = "returnOnEquity" -> Num(-12)
       [] k = "marketCap" -> Num(0)
       [] OTHER -> NoneNum]

Infos ==
  {EmptyDict, InfoDistinct, InfoSparse, InfoAll(Num(0), Num(250)),
   InfoAll(NoneNum, NoneNum), [k \in {"pegRatio"} |-> NoneNum]}
InfoRaises == [raises |-> TRUE, absent |-> FALSE, info |-> EmptyDict]
InfoAbsent == [raises |-> FALSE, absent |-> TRUE, info |-> EmptyDict]
InfoResponses ==
  {InfoRaises, InfoAbsent} \cup {[raises |-> FALSE, absent |-> FALSE, info |-> i] : i \in Infos}

MetricsArgs ==
  [ticker : {AAPL, MSFT}, end_date : {PyNone, D1, D2},
   period : {<< "ttm" >>, << "annual" >>}, limit : {Num(10)}]
  \cup [ticker : {AAPL, MSFT}, end_date : {D1}, period : {<< "ttm" >>}, limit : {Num(1)}]
\* datetime.now().strftime('%Y-%m-%d') at the time of a fetch.
Nows == {D3}

InsiderRow(filed, traded, name, relation, shares, value) ==
  [startDate |-> filed, transactionDate |-> traded, filerName |-> name,
   filerRelation |-> relation, shares |-> shares, value |-> value]

\* Filed on D1, D2 and D3; shares missing in T2, the per-share value in T3.
T1 == InsiderRow(Timestamp(D1, "00:00"), Timestamp(D1, "00:00"), << "Cook" >>,
                 << "CEO" >>, Num(100), Num(250))
T2 == InsiderRow(Timestamp(D2, "09:30"), Timestamp(D1, "00:00"), << "Levinson" >>,
                 << "Director" >>, NaN, Num(250))
T3 == InsiderRow(Timestamp(D3, "00:00"), Timestamp(D2, "00:00"), << "Adams" >>,
                 << "Officer", " and ", "DIRECTOR" >>, Num(40), NaN)
\* No Timestamp in startDate or transactionDate.
T4 == InsiderRow(NotATimestamp, NotATimestamp, EmptyStr, EmptyStr, Num(3), Num(700))
\* Shares that are no number, filed on D1.
T5 == InsiderRow(Timestamp(D1, "00:00"), Timestamp(D1, "00:00"), << "Bell" >>,
                 << "Director" >>, NotNumeric, Num(100))

InsiderTables ==
  {<< >>, << T1 >>, << T1, T2, T3 >>, << T3, T2, T1 >>, << T2, T4, T2, T3 >>,
   << T2, T5 >>}
TableRaises == [raises |-> TRUE, absent |-> FALSE, rows |-> << >>]
TableAbsent == [raises |-> FALSE, absent |-> TRUE, rows |-> << >>]
InsiderResponses ==
  {TableRaises, TableAbsent}
  \cup {[raises |-> FALSE, absent |-> FALSE, rows |-> t] : t \in InsiderTables}

InsiderArg(t, e, s, l) == [ticker |-> t, end_date |-> e, start_date |-> s, limit |-> l]
InsiderArgs ==
  {InsiderArg(AAPL, D3, PyNone, Num(1000)),
   InsiderArg(AAPL, D2, D2, Num(1000)),
   InsiderArg(AAPL, D2, PyNone, Num(2)),
   InsiderArg(AAPL, D3, D2, Num(1)),
   InsiderArg(AAPL, D3, PyNone, Num(0)),
   InsiderArg(AAPL, D3, PyNone, NoneNum),
   InsiderArg(AAPL, D3, D1, Num(-1))}

\* The requests and responses of the specification of all three fetchers.
AllPriceArgs == {a \in PriceArgs : a.end_date = D3}
AllPriceResponses ==
  {ProviderRaises}
  \cup {[raises |-> FALSE, rows |-> t] : t \in {<< >>, << RowA >>, << RowB, RowA >>, << RowA, RowNaN >>}}
AllMetricsArgs == {a \in MetricsArgs : a.period = << "ttm" >> /\ a.end_date # D2}
AllInfoResponses ==
  {InfoRaises, InfoAbsent}
  \cup {[raises |-> FALSE, absent |-> FALSE, info |-> i] : i \in {EmptyDict, InfoDistinct, InfoSparse}}
AllInsiderArgs ==
  {InsiderArg(AAPL, D3, PyNone, Num(1000)), InsiderArg(AAPL, D2, D2, Num(1000)),
   InsiderArg(MSFT, D3, PyNone, Num(1000))}
AllInsiderResponses ==
  {TableRaises, TableAbsent}
  \cup {[raises |-> FALSE, absent |-> FALSE, rows |-> t] :
          t \in {<< >>, << T1 >>, << T1, T2, T3 >>, << T2, T5 >>}}

(***************************************************************************)
(* Specifications                                                          *)
(***************************************************************************)
Init ==
  /\ cache = EmptyCache
  /\ last = NoCall
  /\ nfetch = 0
  /\ inflight = [t \in Threads |-> Idle]

Next ==
  \/ YfGetPrices(AllPriceArgs, AllPriceResponses)
  \/ YfGetFinancialMetrics(AllMetricsArgs, Nows, AllInfoResponses)
  \/ YfGetInsiderTrades(AllInsiderArgs, AllInsiderResponses)
  \/ ClearCache

Spec == Init /\ [][Next]_vars

NextPrices ==
  \/ YfGetPrices(PriceArgs, PriceResponses)
  \/ ClearCache

SpecPrices == Init /\ [][NextPrices]_vars

NextMetrics ==
  \/ YfGetFinancialMetrics(MetricsArgs, Nows, InfoResponses)
  \/ ClearCache

SpecMetrics == Init /\ [][NextMetrics]_vars

NextInsider ==
  \/ YfGetInsiderTrades(InsiderArgs, InsiderResponses)
  \/ ClearCache

SpecInsider == Init /\ [][NextInsider]_vars

\* Requests whose parameters differ in one position, in the order of two
\* positions, or by a ticker that itself holds the separator and a date, for
\* the cache keys of lines 42 and 191.
DatedTicker == AAPL \o << "_" >> \o D1
KeyPriceArgs ==
  {[ticker |-> AAPL, start_date |-> D1, end_date |-> D2],
   [ticker |-> AAPL, start_date |-> D2, end_date |-> D1],
   [ticker |-> AAPL, start_date |-> D1, end_date |-> D1],
   [ticker |-> DatedTicker, start_date |-> D1, end_date |-> D2],
   [ticker |-> DatedTicker, start_date |-> D2, end_date |-> D1]}
KeyPriceResponses ==
  {ProviderRaises} \cup {[raises |-> FALSE, rows |-> t] : t \in {<< RowA >>, << RowB, RowA >>}}
KeyInsiderArgs ==
  {InsiderArg(AAPL, D3, PyNone, Num(2)),
   InsiderArg(AAPL, D3, D2, NoneNum),
   InsiderArg(AAPL, D3, PyNone, NoneNum),
   InsiderArg(AAPL, D2, D3, Num(2)),
   InsiderArg(AAPL, D3, D2, Num(2)),
   InsiderArg(DatedTicker, D3, PyNone, Num(2)),
   InsiderArg(DatedTicker, D3, D2, NoneNum)}
KeyInsiderResponses ==
  {TableAbsent}
  \cup {[raises |-> FALSE, absent |-> FALSE, rows |-> t] : t \in {<< T1, T2, T3 >>, << T3, T2, T1 >>}}

NextKeys ==
  \/ YfGetPrices(KeyPriceArgs, KeyPriceResponses)
  \/ YfGetInsiderTrades(KeyInsiderArgs, KeyInsiderResponses)
  \/ ClearCache

SpecKeys == Init /\ [][NextKeys]_vars
\* The requests and the provider responses of the step-by-step
\* specifications: one key per fetcher, and for each fetcher a
\* failure and responses that transform into different results.
Request(fn, ticker, start_date, end_date, period, limit) ==
  [NoCall EXCEPT !.fn = fn, !.ticker = ticker, !.start_date = start_date,
                 !.end_date = end_date, !.period = period, !.limit = limit]
ThreadRequests ==
  {Request("yf_get_prices", AAPL, D1, D3, EmptyStr, NoneNum),
   Request("yf_get_financial_metrics", AAPL, PyNone, D1, << "ttm" >>, Num(10)),
   Request("yf_get_insider_trades", AAPL, PyNone, D3, EmptyStr, Num(2))}
ThreadResponses ==
  [yf_get_prices |->
     {ProviderRaises}
     \cup {[raises |-> FALSE, rows |-> t] : t \in {<< RowA >>, << RowB, RowA >>, << RowA, RowNaN >>}},
   yf_get_financial_metrics |->
     {InfoAbsent} \cup {[raises |-> FALSE, absent |-> FALSE, info |-> i] : i \in {InfoDistinct, InfoSparse}},
   yf_get_insider_trades |->
     {TableRaises}
     \cup {[raises |-> FALSE, absent |-> FALSE, rows |-> t] : t \in {<< T1 >>, << T1, T2, T3 >>}}]

\* The steps of thread t.
ThreadStep(t) ==
  \/ Invoke(t, ThreadRequests)
  \/ CacheCheck(t)
  \/ ReturnCached(t)
  \/ ProviderCall(t, Nows, ThreadResponses)
  \/ CacheStore(t)
  \/ Returns(t)

NextThreads ==
  \/ \E t \in Threads : ThreadStep(t)
  \/ ClearCacheBetween

\* Two threads, each running one invocation after the other.
SpecThreads == Init /\ [][NextThreads]_vars
\* The same two threads under the scheduling the code relies on: a thread
\* that has entered a fetcher keeps running until it returns, and the blocking
\* provider call comes back, with data or with an exception (the code sets no
\* timeout of its own).  When a caller invokes a fetcher is left open.
ThreadRuns(t) ==
  \/ CacheCheck(t)
  \/ ReturnCached(t)
  \/ ProviderCall(t, Nows, ThreadResponses)
  \/ CacheStore(t)

SpecThreadsFair == SpecThreads /\ \A t \in Threads : WF_vars(ThreadRuns(t))
(***************************************************************************)
(* Claims                                                                  *)
(***************************************************************************)
Fetchers == {"yf_get_prices", "yf_get_financial_metrics", "yf_get_insider_trades"}
Namespaces == {"prices", "financial_metrics", "line_items", "market_cap", "insider_trades"}

\* The step is a call of fetcher fn that repeats the arguments of the call
\* before it, with no clear_cache (or other call) between the two.
RepeatedCall(fn) ==
  /\ last.fn = fn /\ last'.fn = fn
  /\ last'.ticker = last.ticker
  /\ last'.start_date = last.start_date /\ last'.end_date = last.end_date
  /\ last'.period = last.period /\ last'.limit = last.limit

\* C1, as stated: two consecutive yf_get_prices calls with identical arguments
\* invoke the provider exactly once in total and return equal results.
C1_AnyTwoCalls ==
  [][RepeatedCall("yf_get_prices")
       => last.calls + last'.calls = 1 /\ last'.result = last.result]_vars

\* C1, amended: when the first of two consecutive yf_get_prices calls with
\* identical arguments returns a non-empty result, the second makes no provider
\* call and returns the same result; the two invoke the provider exactly once in
\* total when the first was a cache miss (and not at all when it was a hit).
C1_Idempotent ==
  [][RepeatedCall("yf_get_prices") /\ last.result # << >>
       => /\ last'.calls = 0
          /\ last'.result = last.result
          /\ ~last.hit => last.calls + last'.calls = 1
          /\ last.hit => last.calls + last'.calls = 0]_vars

\* C1 witness: the second fetch of a cache lifetime is a hit on the only entry,
\* which the first fetch, a miss with the same arguments, stored.
C1_Witness ==
  /\ last.fn = "yf_get_prices" /\ last.hit /\ nfetch = 2
  /\ DOMAIN cache.prices = {PricesKey(last.ticker, last.start_date, last.end_date)}
  /\ Len(last.result) = 2

\* The provider response of a miss was a failure: an exception, an empty or
\* absent response, or a row whose conversion raises.
ResponseFailed(l) ==
  CASE l.fn = "yf_get_prices" ->
         \/ l.resp.raises
         \/ l.resp.rows = << >>
         \/ \E i \in 1..Len(l.resp.rows) : l.resp.rows[i].Volume = NaN
    [] l.fn = "yf_get_financial_metrics" ->
         l.resp.raises \/ l.resp.absent \/ DOMAIN l.resp.info = {}
    [] l.fn = "yf_get_insider_trades" ->
         \/ l.resp.raises
         \/ l.resp.absent
         \/ l.resp.rows = << >>
         \/ \E i \in 1..Len(l.resp.rows) :
              /\ ~Skipped(l.resp.rows[i], l.start_date, l.end_date)
              /\ NotNumeric \in {l.resp.rows[i].shares, l.resp.rows[i].value}

\* C2: no exception leaves a fetcher, and a miss whose provider response is
\* empty, absent or an exception (raised by the call or by the transformation)
\* returns the empty sequence.
C2_NoExceptionEscapes ==
  last.fn \in Fetchers
    => /\ ~last.raised
       /\ (~last.hit /\ ResponseFailed(last)) => last.result = << >>

\* C2 witness: a miss on which a row's conversion raised returned [].
C2_Witness ==
  /\ last.fn \in Fetchers /\ ~last.hit /\ ~last.raised
  /\ ~last.resp.raises /\ last.resp.rows # << >>
  /\ ResponseFailed(last)
  /\ last.result = << >>

\* C3: after clear_cache every namespace is empty, and the request that
\* follows it is a miss that calls the provider exactly once.
C3_ClearThenMiss ==
  [][/\ last'.fn = "clear_cache" => \A ns \in Namespaces : DOMAIN cache'[ns] = {}
     /\ (last.fn = "clear_cache" /\ last'.fn \in Fetchers)
          => ~last'.hit /\ last'.calls = 1]_vars

\* C3 witness: clear_cache has emptied a cache that held two or more entries.
C3_Witness ==
  /\ last.fn = "clear_cache" /\ last.dropped >= 2
  /\ \A ns \in Namespaces : DOMAIN cache[ns] = {}

MetricsEntries(c) == c.financial_metrics

\* C4: the metrics cache is keyed by ticker alone.  A call that returns a
\* snapshot leaves it, as a one-element sequence, under its ticker; the entry
\* stays as it is until clear_cache; and every call for a ticker that has an
\* entry, whatever its end_date, period and limit, is a hit that returns the
\* entry and makes no provider call.
C4_KeyedByTicker ==
  [][/\ (last'.fn = "yf_get_financial_metrics" /\ last'.result # << >>)
          => /\ Len(last'.result) = 1
             /\ last'.ticker \in DOMAIN MetricsEntries(cache')
             /\ MetricsEntries(cache')[last'.ticker] = last'.result
     /\ (last'.fn = "yf_get_financial_metrics"
           /\ last'.ticker \in DOMAIN MetricsEntries(cache))
          => /\ last'.hit /\ last'.calls = 0
             /\ last'.result = MetricsEntries(cache)[last'.ticker]
     /\ last'.fn # "clear_cache"
          => \A t \in DOMAIN MetricsEntries(cache) :
               /\ t \in DOMAIN MetricsEntries(cache')
               /\ MetricsEntries(cache')[t] = MetricsEntries(cache)[t]]_vars

\* C4 witness: a hit whose end_date and period both differ from those of the
\* snapshot it returns.
C4_Witness ==
  /\ last.fn = "yf_get_financial_metrics" /\ last.hit /\ last.calls = 0
  /\ Len(last.result) = 1
  /\ last.end_date # last.result[1].report_period
  /\ last.period # last.result[1].period

\* The label the claim gives a snapshot: the call's end_date when given, else
\* the current date of the call.
C5_Label(l) == IF l.end_date \notin {PyNone, EmptyStr} THEN l.end_date ELSE l.now

\* C5, as stated: every call that returns a snapshot, a hit included, returns
\* one whose report_period is that call's end_date when given (on a fetch
\* without end_date, the current date) and whose period is that call's period.
C5_EveryCall ==
  (last.fn = "yf_get_financial_metrics" /\ last.result # << >>)
    => /\ last.result[1].period = last.period
       /\ last.end_date \notin {PyNone, EmptyStr}
            => last.result[1].report_period = last.end_date
       /\ (last.end_date \in {PyNone, EmptyStr} /\ ~last.hit)
            => last.result[1].report_period = last.now

\* C5, amended: a call that misses the cache and returns a snapshot labels it
\* with its own end_date (else the current date) and its own period; a hit
\* returns the stored snapshot as it is.
C5_LabelledAtFetch ==
  (last.fn = "yf_get_financial_metrics" /\ last.result # << >>)
    => IF last.hit
       THEN last.result = MetricsEntries(cache)[last.ticker]
       ELSE /\ last.result[1].report_period = C5_Label(last)
            /\ last.result[1].period = last.period

\* C5 witness: a miss with an end_date returned a snapshot labelled with it.
C5_Witness ==
  /\ last.fn = "yf_get_financial_metrics" /\ ~last.hit /\ last.stored
  /\ last.end_date = D1
  /\ last.result[1].report_period = D1
  /\ last.result[1].period = << "annual" >>

\* The filing date of a row as the claims read it, and whether it lies in the
\* requested range, bounds included.
FiledOn(row) == IF row.startDate.type = "Timestamp" THEN row.startDate.date ELSE EmptyStr
InRange(d, start_date, end_date) ==
  /\ d # EmptyStr
  /\ start_date \notin {PyNone, EmptyStr} => StrRank(start_date) <= StrRank(d)
  /\ StrRank(d) <= StrRank(end_date)
OutOfRange(d, start_date, end_date) ==
  /\ d # EmptyStr
  /\ \/ start_date \notin {PyNone, EmptyStr} /\ StrRank(d) < StrRank(start_date)
     \/ StrRank(end_date) < StrRank(d)
\* The limit leaves every record in: falsy, or at least the number of rows.
Uncapped(l) == l.limit = NoneNum \/ l.limit[1] = 0 \/ l.limit[1] >= Len(l.resp.rows)

\* C6, as stated: every record returned has a filing date inside the range.
C6_AllInRange ==
  last.fn = "yf_get_insider_trades"
    => \A i \in 1..Len(last.result) :
         InRange(last.result[i].filing_date, last.start_date, last.end_date)

\* C6, amended: every record returned that has a filing date has it inside
\* the range; a row filed before start_date or after end_date is excluded, a
\* row filed on a bound is included, and so is a row with no filing date.
C6_FiledInRange ==
  last.fn = "yf_get_insider_trades"
    => /\ \A i \in 1..Len(last.result) :
            \/ last.result[i].filing_date = EmptyStr
            \/ InRange(last.result[i].filing_date, last.start_date, last.end_date)
       /\ (last.stored /\ Uncapped(last))
            => LET included ==
                     SelectSeq(last.resp.rows,
                               LAMBDA row : ~OutOfRange(FiledOn(row), last.start_date,
                                                        last.end_date))
               IN /\ Len(last.result) = Len(included)
                  /\ \A i \in 1..Len(included) :
                       last.result[i].filing_date = FiledOn(included[i])

\* C6 witness: with start_date = end_date = D2, rows filed on D2 and a row with
\* no filing date were returned and a row filed on D3 was not.
C6_Witness ==
  /\ last.fn = "yf_get_insider_trades" /\ last.stored
  /\ last.start_date = D2 /\ last.end_date = D2
  /\ \E i \in 1..Len(last.resp.rows) : FiledOn(last.resp.rows[i]) = D3
  /\ \E i \in 1..Len(last.result) : last.result[i].filing_date = D2
  /\ \E i \in 1..Len(last.result) : last.result[i].filing_date = EmptyStr
  /\ \A i \in 1..Len(last.result) : last.result[i].filing_date # D3

\* The records of the rows the date filter leaves, in provider row order.
FilteredRecords(l) ==
  LET included ==
        SelectSeq(l.resp.rows,
                  LAMBDA row : ~OutOfRange(FiledOn(row), l.start_date, l.end_date))
  IN [i \in 1..Len(included) |-> TradeOf(l.ticker, included[i])]
FirstN(s, n) == SubSeq(s, 1, IF n < Len(s) THEN n ELSE Len(s))

\* C7, as stated: for every truthy limit L the result is the first min(L, n)
\* of the n filtered records and has at most L records; for a falsy limit it
\* is all of them.
C7_AnyTruthyLimit ==
  (last.fn = "yf_get_insider_trades" /\ last.stored)
    => IF last.limit # NoneNum /\ last.limit[1] # 0
       THEN /\ last.result = FirstN(FilteredRecords(last), last.limit[1])
            /\ Len(last.result) <= last.limit[1]
       ELSE last.result = FilteredRecords(last)

\* C7, amended: for a positive limit L the result is the first min(L, n) of the
\* n filtered records, so at most L; for a falsy limit (0 or None) it is all of
\* them; a negative limit -k leaves out the last k of them.
C7_PositiveLimit ==
  (last.fn = "yf_get_insider_trades" /\ last.stored)
    => LET f == FilteredRecords(last) IN
       IF last.limit = NoneNum \/ last.limit[1] = 0 THEN last.result = f
       ELSE IF last.limit[1] > 0
       THEN /\ last.result = FirstN(f, last.limit[1])
            /\ Len(last.result) <= last.limit[1]
       ELSE last.result = FirstN(f, IF Len(f) + last.limit[1] > 0
                                    THEN Len(f) + last.limit[1] ELSE 0)

\* C7 witness: a limit of 1 cut two filtered records down to the first.
C7_Witness ==
  /\ last.fn = "yf_get_insider_trades" /\ last.stored
  /\ last.limit = Num(1)
  /\ Len(FilteredRecords(last)) = 2
  /\ Len(last.resp.rows) = 3
  /\ last.result = << FilteredRecords(last)[1] >>

\* C8: on a miss with a provider response of N >= 1 rows that all convert,
\* yf_get_prices returns N records, the i-th built from the i-th row.
C8_RowForRow ==
  (/\ last.fn = "yf_get_prices" /\ ~last.hit
   /\ ~last.resp.raises /\ Len(last.resp.rows) >= 1
   /\ \A i \in 1..Len(last.resp.rows) : last.resp.rows[i].Volume # NaN)
    => /\ Len(last.result) = Len(last.resp.rows)
       /\ \A i \in 1..Len(last.resp.rows) :
            LET rec == last.result[i]
                row == last.resp.rows[i]
            IN /\ rec.open = row.Open /\ rec.high = row.High
               /\ rec.low = row.Low /\ rec.close = row.Close
               /\ rec.volume = row.Volume
               /\ rec.time = row.index.date

\* C8 witness: two different rows gave two different records.
C8_Witness ==
  /\ last.fn = "yf_get_prices" /\ ~last.hit
  /\ Len(last.result) = 2
  /\ last.result[1].time = D2 /\ last.result[2].time = D1

\* The fractional-rate fields and the provider field each is read from.
RateFields ==
  {<< "gross_margin", "grossMargins" >>, << "operating_margin", "operatingMargins" >>,
   << "net_margin", "profitMargins" >>, << "return_on_equity", "returnOnEquity" >>,
   << "return_on_assets", "returnOnAssets" >>, << "revenue_growth", "revenueGrowth" >>,
   << "earnings_growth", "earningsGrowth" >>,
   << "earnings_per_share_growth", "earningsQuarterlyGrowth" >>,
   << "payout_ratio", "payoutRatio" >>}

\* C9: in a fetched snapshot every fractional-rate field is the provider's
\* number times 100 when the provider field holds a number, and None when the
\* provider field is absent.
C9_PercentOfEveryNumber ==
  (last.fn = "yf_get_financial_metrics" /\ ~last.hit /\ last.stored)
    => \A f \in RateFields :
         LET info == last.resp.info
             mapped == last.result[1][f[1]]
         IN /\ (f[2] \in DOMAIN info /\ info[f[2]] # NoneNum)
                 => mapped = Num(info[f[2]][1] * 100)
            /\ f[2] \notin DOMAIN info => mapped = NoneNum

\* C10: a returned record's transaction_value is shares x price per share when
\* the provider row has both, and 0 when either is missing.
C10_TransactionValue ==
  last.fn = "yf_get_insider_trades"
    => /\ \A i \in 1..Len(last.result) :
            last.result[i].transaction_value
              = Num(last.result[i].transaction_shares[1]
                    * last.result[i].transaction_price_per_share[1])
       /\ last.stored
            => LET included ==
                     SelectSeq(last.resp.rows,
                               LAMBDA row : ~OutOfRange(FiledOn(row), last.start_date,
                                                        last.end_date))
               IN \A i \in 1..Len(last.result) :
                    last.result[i].transaction_value
                      = IF included[i].shares # NaN /\ included[i].value # NaN
                        THEN Num(included[i].shares[1] * included[i].value[1])
                        ELSE Num(0)

\* C10 witness: one record valued 100 x 2.50, one with the shares missing and
\* one with the per-share value missing, both valued 0.
C10_Witness ==
  /\ last.fn = "yf_get_insider_trades" /\ last.stored
  /\ Len(last.result) = 3
  /\ last.result[1].transaction_value = Num(25000)
  /\ last.result[2].transaction_shares = Num(0) /\ last.result[2].transaction_value = Num(0)
  /\ last.result[3].transaction_price_per_share = Num(0)
  /\ last.result[3].transaction_shares = Num(40)
  /\ last.result[3].transaction_value = Num(0)

\* The fields of a snapshot that the code fills with no provider value.
UnavailableFields ==
  {"free_cash_flow_yield", "return_on_invested_capital", "asset_turnover",
   "inventory_turnover", "receivables_turnover", "days_sales_outstanding",
   "operating_cycle", "working_capital_turnover", "cash_ratio",
   "operating_cash_flow_ratio", "debt_to_assets", "interest_coverage",
   "book_value_growth", "free_cash_flow_growth", "operating_income_growth",
   "ebitda_growth", "free_cash_flow_per_share"}

\* C11: in every snapshot, returned or cached, each field with no provider
\* equivalent is None: never zero, never any other number.
C11_UnavailableIsNone ==
  /\ last.fn = "yf_get_financial_metrics"
       => \A i \in 1..Len(last.result) :
            \A f \in UnavailableFields : last.result[i][f] = NoneNum
  /\ \A k \in DOMAIN cache.financial_metrics :
       \A i \in 1..Len(cache.financial_metrics[k]) :
         \A f \in UnavailableFields : cache.financial_metrics[k][i][f] = NoneNum

\* C11 witness: a snapshot built from a dictionary in which every key carries
\* a nonzero number, so that every provider-backed number is set and the
\* fields with no equivalent are the only None ones.
C11_Witness ==
  /\ last.fn = "yf_get_financial_metrics" /\ ~last.hit /\ last.stored
  /\ last.resp.info = InfoDistinct
  /\ last.result[1].market_cap # NoneNum /\ last.result[1].gross_margin # NoneNum
  /\ last.result[1].debt_to_equity # NoneNum
  /\ last.result[1].debt_to_assets = NoneNum
  /\ last.result[1].free_cash_flow_yield = NoneNum

\* C12: a fetcher call whose provider response is empty, absent or an
\* exception stores nothing: the whole cache is the same after the call as
\* before it, and the same request made again right after is a miss that
\* calls the provider again.
C12_FailureStoresNothing ==
  [][/\ (last'.fn \in Fetchers /\ ~last'.hit /\ ResponseFailed(last'))
          => /\ cache' = cache
             /\ ~last'.stored
             /\ KeyOfCall(last') \notin DOMAIN cache'[NamespaceOf(last'.fn)]
     /\ (\E fn \in Fetchers : RepeatedCall(fn) /\ ~last.hit /\ ResponseFailed(last))
          => ~last'.hit /\ last'.calls = 1]_vars

\* C12 witness: a miss that failed with entries already in the cache, none of
\* them under the key of the failed request.
C12_Witness ==
  /\ last.fn \in Fetchers /\ ~last.hit /\ ResponseFailed(last)
  /\ last.result = << >> /\ ~last.stored
  /\ Entries(cache) >= 2
  /\ KeyOfCall(last) \notin DOMAIN cache[NamespaceOf(last.fn)]

\* C13: no fetcher call overwrites or removes an entry of the cache: every
\* entry present before the call is present, with the same value, after it.
\* A store writes a key that was absent, and a hit returns the entry as it was
\* stored, with no provider call, whatever the provider would answer now.
C13_EntriesImmutable ==
  [][last'.fn \in Fetchers
       => LET ns == NamespaceOf(last'.fn)
              key == KeyOfCall(last')
          IN /\ \A n \in Namespaces : \A k \in DOMAIN cache[n] :
                  k \in DOMAIN cache'[n] /\ cache'[n][k] = cache[n][k]
             /\ last'.hit
                  => /\ key \in DOMAIN cache[ns]
                     /\ last'.result = cache[ns][key]
                     /\ last'.calls = 0
             /\ last'.stored
                  => /\ key \notin DOMAIN cache[ns]
                     /\ cache'[ns][key] = last'.result]_vars

\* C13 witness: the third call of a cache lifetime is a hit, while the cache
\* holds two entries: one of the two earlier stores was followed by another
\* store and by the hit, and is still there.
C13_Witness ==
  /\ last.fn \in Fetchers /\ last.hit /\ nfetch = 3
  /\ Entries(cache) = 2
  /\ last.result = cache[NamespaceOf(last.fn)][KeyOfCall(last)]
  /\ last.result # << >>

\* The requests of the key specification that map to key k.
PricesRequestsOf(k) ==
  {a \in KeyPriceArgs : PricesKey(a.ticker, a.start_date, a.end_date) = k}
InsiderRequestsOf(k) ==
  {a \in KeyInsiderArgs : InsiderKey(a.ticker, a.end_date, a.start_date, a.limit) = k}

\* C14: a key identifies its request. Every key stored in the prices and the
\* insider-trades namespaces is the key of exactly one request, so a hit is
\* served only to the request that stored the entry: the parameters of a hit
\* are those of the one request with that key, and an insider-trades hit
\* returns a result that its own parameters produce from a provider response.
C14_KeyIdentifiesRequest ==
  /\ \A k \in DOMAIN cache.prices : Cardinality(PricesRequestsOf(k)) = 1
  /\ \A k \in DOMAIN cache.insider_trades : Cardinality(InsiderRequestsOf(k)) = 1
  /\ (last.fn = "yf_get_prices" /\ last.hit)
       => PricesRequestsOf(KeyOfCall(last))
            = {[ticker |-> last.ticker, start_date |-> last.start_date,
                end_date |-> last.end_date]}
  /\ (last.fn = "yf_get_insider_trades" /\ last.hit)
       => /\ InsiderRequestsOf(KeyOfCall(last))
               = {InsiderArg(last.ticker, last.end_date, last.start_date, last.limit)}
          /\ \E resp \in KeyInsiderResponses :
               LET o == InsiderExcept(InsiderTry(last.ticker, last.end_date,
                                                 last.start_date, last.limit, resp))
               IN o.store /\ o.ret = last.result

\* C14 witness: a hit of the request with a limit of 2 and no start date, while
\* the cache also holds the entries of the request that differs from it only in
\* the limit (None) and of a request for the ticker that contains a date.
C14_Witness ==
  /\ last.fn = "yf_get_insider_trades" /\ last.hit
  /\ last.ticker = AAPL /\ last.start_date = PyNone /\ last.limit = Num(2)
  /\ Len(last.result) = 2
  /\ InsiderKey(AAPL, D3, PyNone, NoneNum) \in DOMAIN cache.insider_trades
  /\ Len(cache.insider_trades[InsiderKey(AAPL, D3, PyNone, NoneNum)]) = 3

\* The two invocations in flight are of the same fetcher for the same key,
\* both missed, and both have their result in hand.
BothMissedOneKey ==
  /\ \A t \in Threads : inflight[t].pc = "done" /\ ~inflight[t].call.hit
  /\ \A t, u \in Threads :
       /\ inflight[t].call.fn = inflight[u].call.fn
       /\ KeyOfCall(inflight[t].call) = KeyOfCall(inflight[u].call)

\* The complete result of invocation t: the transformation of the whole
\* response that its own provider call got.
CompleteResult(t) ==
  LET l == inflight[t].call IN Outcome(l, l.now, l.resp).ret

\* C15: invocations of one fetcher for one uncached key may interleave so
\* that each misses and calls the provider; whenever both have finished, the
\* entry of the key is the complete result of one of those that stored, never
\* a mixture of the two; and an entry changes only by the store of one
\* invocation, which sets it to that invocation's whole result (so the one
\* that stores last determines the entry).
C15_LastStoreWins ==
  /\ [](BothMissedOneKey /\ (\E t \in Threads : inflight[t].call.stored)
          => LET l == inflight["t1"].call
                 ns == NamespaceOf(l.fn)
                 key == KeyOfCall(l)
             IN /\ key \in DOMAIN cache[ns]
                /\ \E t \in Threads :
                     /\ inflight[t].call.stored
                     /\ cache[ns][key] = CompleteResult(t)
                     /\ cache[ns][key] = inflight[t].call.result)
  /\ [][\A ns \in Namespaces : \A k \in DOMAIN cache'[ns] :
          (k \notin DOMAIN cache[ns] \/ cache'[ns][k] # cache[ns][k])
            => \E t \in Threads :
                 /\ inflight[t].pc = "store" /\ inflight'[t].pc = "done"
                 /\ NamespaceOf(inflight[t].call.fn) = ns
                 /\ KeyOfCall(inflight[t].call) = k
                 /\ cache'[ns][k] = CompleteResult(t)]_vars

\* C15 witness: both invocations of yf_get_prices for one key missed, called
\* the provider once each and stored; their results differ, and the cache
\* entry is the result of the second thread, whole.
C15_Witness ==
  /\ BothMissedOneKey
  /\ inflight["t1"].call.fn = "yf_get_prices"
  /\ \A t \in Threads : inflight[t].call.calls = 1 /\ inflight[t].call.stored
  /\ Len(inflight["t1"].call.result) = 1 /\ Len(inflight["t2"].call.result) = 2
  /\ cache.prices[KeyOfCall(inflight["t2"].call)] = inflight["t2"].call.result

\* The edges of the state machine shared by the fetchers.
Edges ==
  {<<"idle", "check">>, <<"check", "hit">>, <<"check", "call">>, <<"hit", "done">>,
   <<"call", "store">>, <<"call", "done">>, <<"store", "done">>, <<"done", "idle">>}

\* C16: every invocation moves along the edges of the shared state machine
\* (check; on a hit return the cached value; on a miss call the provider, then
\* either store and return or return empty); when it has its result it has
\* made no provider call on a hit and exactly one on a miss, an empty or
\* failed response included; and every invocation that has started reaches
\* its return.
C16_StateMachineTerminates ==
  /\ [][\A t \in Threads :
          inflight'[t].pc # inflight[t].pc
            => /\ <<inflight[t].pc, inflight'[t].pc>> \in Edges
               /\ inflight'[t].call.calls <= 1]_vars
  /\ [](\A t \in Threads :
          inflight[t].pc = "done"
            => /\ inflight[t].call.calls = IF inflight[t].call.hit THEN 0 ELSE 1
               /\ ~inflight[t].call.raised)
  /\ \A t \in Threads : (inflight[t].pc = "check") ~> (inflight[t].pc = "done")

\* C16 witness: an invocation that missed, made its one provider call, got a
\* response that failed (an exception, no data, or a row that does not
\* convert) and has the empty result in hand, nothing stored.
C16_Witness ==
  \E t \in Threads :
    /\ inflight[t].pc = "done" /\ ~inflight[t].call.hit
    /\ inflight[t].call.calls = 1
    /\ ResponseFailed(inflight[t].call)
    /\ inflight[t].call.result = << >> /\ ~inflight[t].call.stored

\* The provider answered with rows, and the conversion of one of the rows that
\* the fetcher converts raises.
ConversionRaises(l) ==
  /\ l.fn \in {"yf_get_prices", "yf_get_insider_trades"}
  /\ ~l.hit /\ ~l.resp.raises
  /\ IF l.fn = "yf_get_prices"
     THEN \E i \in 1..Len(l.resp.rows) : PriceRaises(l.resp.rows[i])
     ELSE /\ ~l.resp.absent
          /\ \E i \in 1..Len(l.resp.rows) :
               /\ ~Skipped(l.resp.rows[i], l.start_date, l.end_date)
               /\ TradeRaises(l.resp.rows[i])

\* C17: when the conversion of a provider row raises in yf_get_prices or
\* yf_get_insider_trades, the call returns the empty sequence, lets no
\* exception out and leaves the cache as it was, whatever rows were converted
\* before the one that raised; a call that stores has converted every row.
C17_AllOrNothing ==
  [][/\ ConversionRaises(last')
          => /\ last'.result = << >>
             /\ ~last'.raised /\ ~last'.stored
             /\ cache' = cache
     /\ (last'.fn \in {"yf_get_prices", "yf_get_insider_trades"} /\ last'.stored)
          => ~ConversionRaises(last')]_vars

\* C17 witness: the first price row converts and the second raises; the call
\* returned [] and its key is not in the cache.
C17_Witness ==
  /\ last.fn = "yf_get_prices" /\ ConversionRaises(last)
  /\ Len(last.resp.rows) = 2
  /\ ~PriceRaises(last.resp.rows[1]) /\ PriceRaises(last.resp.rows[2])
  /\ last.result = << >>
  /\ KeyOfCall(last) \notin DOMAIN cache.prices

\* C18: a fetcher call changes nothing outside its own namespace; in its own
\* namespace it leaves every other key as it was and adds at most one entry,
\* under the key of the request, and only when it stores its result.
C18_OwnNamespaceOwnKey ==
  [][last'.fn \in Fetchers
       => LET ns == NamespaceOf(last'.fn)
              key == KeyOfCall(last')
          IN /\ \A n \in Namespaces \ {ns} : cache'[n] = cache[n]
             /\ DOMAIN cache'[ns] \ DOMAIN cache[ns] \subseteq {key}
             /\ \A k \in DOMAIN cache[ns] \ {key} :
                  k \in DOMAIN cache'[ns] /\ cache'[ns][k] = cache[ns][k]
             /\ Entries(cache') <= Entries(cache) + 1
             /\ Entries(cache') = Entries(cache) + 1 <=> last'.stored]_vars

\* C18 witness: a call has just stored its result in a namespace that already
\* held another key, while another namespace holds an entry too.
C18_Witness ==
  /\ last.fn \in Fetchers /\ last.stored
  /\ KeyOfCall(last) \in DOMAIN cache[NamespaceOf(last.fn)]
  /\ Cardinality(DOMAIN cache[NamespaceOf(last.fn)]) = 2
  /\ Entries(cache) = 3

\* C19 as stated: no namespace holds an empty sequence, and an empty result
\* never comes from a hit.
C19_NoEmptyEntry ==
  /\ \A k \in DOMAIN cache.prices : Len(cache.prices[k]) >= 1
  /\ \A k \in DOMAIN cache.financial_metrics : Len(cache.financial_metrics[k]) = 1
  /\ \A k \in DOMAIN cache.insider_trades : Len(cache.insider_trades[k]) >= 1
  /\ (last.fn \in Fetchers /\ last.result = << >>) => ~last.hit /\ last.calls = 1

\* C19, amended: every value stored under prices has at least one record and
\* every value stored under financial_metrics is exactly one snapshot, so an
\* empty result of yf_get_prices or yf_get_financial_metrics comes from a
\* provider call of the same invocation, never from a hit.  A value stored
\* under insider_trades comes from a provider table with rows, but is empty
\* when the date filter or the cap left none of them.
C19_NoEmptyPricesOrMetrics ==
  /\ \A k \in DOMAIN cache.prices : Len(cache.prices[k]) >= 1
  /\ \A k \in DOMAIN cache.financial_metrics : Len(cache.financial_metrics[k]) = 1
  /\ (last.fn \in {"yf_get_prices", "yf_get_financial_metrics"} /\ last.result = << >>)
       => ~last.hit /\ last.calls = 1
  /\ (last.fn = "yf_get_insider_trades" /\ last.stored)
       => /\ last.resp.rows # << >>
          /\ last.result = << >>
               => \/ \A i \in 1..Len(last.resp.rows) :
                       Skipped(last.resp.rows[i], last.start_date, last.end_date)
                  \/ (last.limit # NoneNum /\ last.limit[1] < 0)

\* C19 witness: the cache holds an entry of prices or of financial metrics,
\* and yf_get_insider_trades has just returned, from a hit, the empty sequence
\* stored when the date filter dropped every row.
C19_Witness ==
  /\ last.fn = "yf_get_insider_trades" /\ last.hit /\ last.result = << >>
  /\ cache.insider_trades[KeyOfCall(last)] = << >>
  /\ DOMAIN cache.prices \cup DOMAIN cache.financial_metrics # {}

====
